---- MODULE Spec2Model ----
(***************************************************************************)
(* Model of the Dex CRM MCP server: the DexClient request builders         *)
(* (client.py) and the tool dispatcher call_tool with its lazily created   *)
(* client singleton (server.py).                                           *)
(***************************************************************************)
EXTENDS Integers, Sequences, FiniteSets, TLC

VARIABLES started, env, _client, args, last, prev, listed, shadow, reuses,
          built, keyCalled, noKeyCalled

vars == <<started, env, _client, args, last, prev, listed, shadow, reuses,
          built, keyCalled, noKeyCalled>>

(***************************************************************************)
(* Bounds of the model.                                                    *)
(***************************************************************************)
\* How many times in a row a caller passes the same mapping object again.
MaxReuse == 1

(***************************************************************************)
(* Python / JSON values carried by an arguments mapping.                   *)
(***************************************************************************)
Null == [kind |-> "null", items |-> <<>>]
Str(s) == [kind |-> "str", items |-> <<s>>]
Bool(b) == [kind |-> "bool", items |-> <<IF b THEN "True" ELSE "False">>]
Num(s) == [kind |-> "int", items |-> <<s>>]
List(l) == [kind |-> "list", items |-> l]

\* Python truthiness, as used by `if email:`, `if phone:`, `if contact_ids:`.
Truthy(v) ==
  CASE v.kind = "null" -> FALSE
    [] v.kind = "str"  -> v.items[1] # ""
    [] v.kind = "bool" -> v.items[1] = "True"
    [] v.kind = "int"  -> v.items[1] # "0"
    [] v.kind = "list" -> v.items # <<>>

\* str(v) inside an f-string, as pieces of text.
Fmt(v) ==
  CASE v.kind = "null" -> <<"None">>
    [] v.kind = "list" -> <<"[">> \o v.items \o <<"]">>
    [] OTHER           -> v.items

EmptyMap == [k \in {} |-> Null]

\* dict.get(key, default)
Get(a, k, default) == IF k \in DOMAIN a THEN a[k] ELSE default

\* dict.pop(key) on a mapping that holds the key: the mapping afterwards.
Pop(a, k) == [x \in (DOMAIN a) \ {k} |-> a[x]]

(***************************************************************************)
(* DexClient: every method builds one request and hands it to _request.    *)
(***************************************************************************)
Request(method, path, params, hasJson, json) ==
  [method |-> method, path |-> path, params |-> params,
   hasJson |-> hasJson, json |-> json]

Params(limit, offset) == [k \in {"limit", "offset"} |->
                            IF k = "limit" THEN limit ELSE offset]

list_contacts(limit, offset) ==
  Request("GET", <<"/contacts">>, Params(limit, offset), FALSE, EmptyMap)

get_contact(contact_id) ==
  Request("GET", <<"/contacts/">> \o Fmt(contact_id), EmptyMap, FALSE, EmptyMap)

search_contacts_by_email(email) ==
  Request("GET", <<"/search/contacts">>, [k \in {"email"} |-> email],
          FALSE, EmptyMap)

ContactBaseKeys == {"first_name", "last_name", "job_title", "description",
                    "linkedin", "twitter", "instagram", "website"}

\* kw holds the keyword arguments as call_tool passes them (all eleven).
create_contact(kw) ==
  LET keys == ContactBaseKeys
                \cup (IF Truthy(kw["email"]) THEN {"contact_emails"} ELSE {})
                \cup (IF Truthy(kw["phone"]) THEN {"contact_phone_numbers"} ELSE {})
      contact_data == [k \in keys |->
         CASE k = "contact_emails" -> [data |-> [email |-> kw["email"]]]
           [] k = "contact_phone_numbers" ->
                [data |-> [phone_number |-> kw["phone"], label |-> kw["phone_label"]]]
           [] OTHER -> kw[k]]
  IN Request("POST", <<"/contacts">>, EmptyMap, TRUE, [contact |-> contact_data])

\* update_contact as it would be if the id were sent along with the fields.
update_contact_sends_id(contact_id, fields) ==
  Request("PUT", <<"/contacts/">> \o Fmt(contact_id), EmptyMap, TRUE,
          [contact |-> [k \in (DOMAIN fields) \cup {"contact_id"} |->
                          IF k = "contact_id" THEN contact_id ELSE fields[k]]])

update_contact(contact_id, fields) ==
  Request("PUT", <<"/contacts/">> \o Fmt(contact_id), EmptyMap, TRUE,
          [contact |-> fields])

delete_contact(contact_id) ==
  Request("DELETE", <<"/contacts/">> \o Fmt(contact_id), EmptyMap, FALSE, EmptyMap)

list_notes(limit, offset) ==
  Request("GET", <<"/timeline_items">>, Params(limit, offset), FALSE, EmptyMap)

get_notes_for_contact(contact_id) ==
  Request("GET", <<"/timeline_items/contacts/">> \o Fmt(contact_id), EmptyMap,
          FALSE, EmptyMap)

\* datetime.now(timezone.utc).isoformat(), the clock reading now at the call.
NowUtc(now) == Str(now)

\* [{"contact_id": cid} for cid in contact_ids]
ContactRefs(contact_ids) ==
  [i \in 1..Len(contact_ids.items) |-> [contact_id |-> contact_ids.items[i]]]

\* create_note as it would be with create_reminder's `if contact_ids:` test.
create_note_omits_empty(note, contact_ids, event_time, now) ==
  LET et == IF event_time = Null THEN NowUtc(now) ELSE event_time
      keys == {"note", "event_time", "meeting_type"}
                \cup (IF Truthy(contact_ids) THEN {"timeline_items_contacts"} ELSE {})
      timeline_event == [k \in keys |->
         CASE k = "note" -> note
           [] k = "event_time" -> et
           [] k = "meeting_type" -> Str("note")
           [] k = "timeline_items_contacts" -> [data |-> ContactRefs(contact_ids)]]
  IN Request("POST", <<"/timeline_items">>, EmptyMap, TRUE,
             [timeline_event |-> timeline_event])

\* create_note as it would be with `if not event_time:` in place of `is None`.
create_note_falsy_time(note, contact_ids, event_time, now) ==
  LET et == IF ~Truthy(event_time) THEN NowUtc(now) ELSE event_time
      timeline_event == [k \in {"note", "event_time", "meeting_type",
                                "timeline_items_contacts"} |->
         CASE k = "note" -> note
           [] k = "event_time" -> et
           [] k = "meeting_type" -> Str("note")
           [] k = "timeline_items_contacts" -> [data |-> ContactRefs(contact_ids)]]
  IN Request("POST", <<"/timeline_items">>, EmptyMap, TRUE,
             [timeline_event |-> timeline_event])

create_note(note, contact_ids, event_time, now) ==
  LET et == IF event_time = Null THEN NowUtc(now) ELSE event_time
      timeline_event == [k \in {"note", "event_time", "meeting_type",
                                "timeline_items_contacts"} |->
         CASE k = "note" -> note
           [] k = "event_time" -> et
           [] k = "meeting_type" -> Str("note")
           [] k = "timeline_items_contacts" -> [data |-> ContactRefs(contact_ids)]]
  IN Request("POST", <<"/timeline_items">>, EmptyMap, TRUE,
             [timeline_event |-> timeline_event])

update_note(note_id, note) ==
  Request("PUT", <<"/timeline_items/">> \o Fmt(note_id), EmptyMap, TRUE,
          [timeline_event |-> [k \in {"note"} |-> note]])

delete_note(note_id) ==
  Request("DELETE", <<"/timeline_items/">> \o Fmt(note_id), EmptyMap, FALSE, EmptyMap)

list_reminders(limit, offset) ==
  Request("GET", <<"/reminders">>, Params(limit, offset), FALSE, EmptyMap)

create_reminder(title, due_date, contact_ids, text, is_complete) ==
  LET keys == {"title", "text", "is_complete", "due_at_date"}
                \cup (IF Truthy(contact_ids) THEN {"reminders_contacts"} ELSE {})
      reminder_data == [k \in keys |->
         CASE k = "title" -> title
           [] k = "text" -> text
           [] k = "is_complete" -> is_complete
           [] k = "due_at_date" -> due_date
           [] k = "reminders_contacts" -> [data |-> ContactRefs(contact_ids)]]
  IN Request("POST", <<"/reminders">>, EmptyMap, TRUE, [reminder |-> reminder_data])

\* update_reminder as it would be with truthiness tests in place of `is not None`.
update_reminder_truthy(reminder_id, title, text, due_date, is_complete) ==
  LET keys == (IF Truthy(title) THEN {"title"} ELSE {})
                \cup (IF Truthy(text) THEN {"text"} ELSE {})
                \cup (IF Truthy(due_date) THEN {"due_at_date"} ELSE {})
                \cup (IF Truthy(is_complete) THEN {"is_complete"} ELSE {})
      reminder_data == [k \in keys |->
         CASE k = "title" -> title
           [] k = "text" -> text
           [] k = "due_at_date" -> due_date
           [] k = "is_complete" -> is_complete]
  IN Request("PUT", <<"/reminders/">> \o Fmt(reminder_id), EmptyMap, TRUE,
             [reminder |-> reminder_data])

update_reminder(reminder_id, title, text, due_date, is_complete) ==
  LET keys == (IF title # Null THEN {"title"} ELSE {})
                \cup (IF text # Null THEN {"text"} ELSE {})
                \cup (IF due_date # Null THEN {"due_at_date"} ELSE {})
                \cup (IF is_complete # Null THEN {"is_complete"} ELSE {})
      reminder_data == [k \in keys |->
         CASE k = "title" -> title
           [] k = "text" -> text
           [] k = "due_at_date" -> due_date
           [] k = "is_complete" -> is_complete]
  IN Request("PUT", <<"/reminders/">> \o Fmt(reminder_id), EmptyMap, TRUE,
             [reminder |-> reminder_data])

delete_reminder(reminder_id) ==
  Request("DELETE", <<"/reminders/">> \o Fmt(reminder_id), EmptyMap, FALSE, EmptyMap)

\* complete_reminder as it would be with True passed positionally (as title).
complete_reminder_positional(reminder_id) ==
  update_reminder(reminder_id, Bool(TRUE), Null, Null, Null)

complete_reminder(reminder_id) ==
  update_reminder(reminder_id, Null, Null, Null, Bool(TRUE))

(***************************************************************************)
(* DexClient._request: one round trip through the transport.               *)
(***************************************************************************)
\* What the remote side does with a request.
Remotes == {"ok", "status", "timeout"}

NoExc == [type |-> "", text |-> <<>>]
KeyError(k) == [type |-> "KeyError", text |-> <<"'", k, "'">>]
TypeError(msg) == [type |-> "TypeError", text |-> <<msg>>]
ValueError(msg) == [type |-> "ValueError", text |-> <<msg>>]
HTTPStatusError == [type |-> "HTTPStatusError", text |-> <<"Server error '500 Internal Server Error'">>]
TimeoutException == [type |-> "TimeoutException", text |-> <<"timed out">>]

\* The decoded JSON body of a successful response.
RemoteResult == "result"

_request(req, remote) ==
  CASE remote = "timeout" -> [ok |-> FALSE, exc |-> TimeoutException, result |-> ""]
    [] remote = "status"  -> [ok |-> FALSE, exc |-> HTTPStatusError, result |-> ""]
    [] remote = "ok"      -> [ok |-> TRUE, exc |-> NoExc, result |-> RemoteResult]

(***************************************************************************)
(* server.py: the client singleton, the catalog and the dispatcher.        *)
(***************************************************************************)
\* os.environ.get("DEX_API_KEY"): unset, set to the empty string, or a key.
\* The process never writes its own environment, so the value is fixed at start.
EnvStates == {[set |-> FALSE, val |-> ""], [set |-> TRUE, val |-> ""],
              [set |-> TRUE, val |-> "key-1"]}

NoClient == [set |-> FALSE, api_key |-> ""]

\* DexClient(api_key)
DexClient(api_key) == [set |-> TRUE, api_key |-> api_key]

ConfigMessage == "DEX_API_KEY environment variable is required. Get your API key from https://getdex.com/appv3/settings/api"

\* get_client as it would be without the `if _client is None` test.
get_client_no_cache(cl, e) ==
  IF ~(e.set /\ e.val # "")
    THEN [raised |-> TRUE, exc |-> ValueError(ConfigMessage), client |-> cl,
          built |-> FALSE]
    ELSE [raised |-> FALSE, exc |-> NoExc, client |-> DexClient(e.val),
          built |-> TRUE]

get_client(cl, e) ==
  IF cl # NoClient
    THEN [raised |-> FALSE, exc |-> NoExc, client |-> cl, built |-> FALSE]
    ELSE IF ~(e.set /\ e.val # "")
      THEN [raised |-> TRUE, exc |-> ValueError(ConfigMessage), client |-> cl,
            built |-> FALSE]
      ELSE [raised |-> FALSE, exc |-> NoExc, client |-> DexClient(e.val),
            built |-> TRUE]

\* The CRM operations of DexClient (its public methods other than close).
ClientOps ==
  {"list_contacts", "get_contact", "search_contacts_by_email", "create_contact",
   "update_contact", "delete_contact", "list_notes", "get_notes_for_contact",
   "create_note", "update_note", "delete_note", "list_reminders",
   "create_reminder", "update_reminder", "delete_reminder", "complete_reminder"}

\* list_tools as it would be with the dex_complete_reminder entry left out.
list_tools_without_complete ==
  << "dex_list_contacts", "dex_get_contact", "dex_search_contacts",
     "dex_create_contact", "dex_update_contact", "dex_delete_contact",
     "dex_list_notes", "dex_get_notes_for_contact", "dex_create_note",
     "dex_update_note", "dex_delete_note",
     "dex_list_reminders", "dex_create_reminder", "dex_update_reminder",
     "dex_delete_reminder" >>

\* The names of the catalog, in the order list_tools returns them.
list_tools ==
  << "dex_list_contacts", "dex_get_contact", "dex_search_contacts",
     "dex_create_contact", "dex_update_contact", "dex_delete_contact",
     "dex_list_notes", "dex_get_notes_for_contact", "dex_create_note",
     "dex_update_note", "dex_delete_note",
     "dex_list_reminders", "dex_create_reminder", "dex_update_reminder",
     "dex_complete_reminder", "dex_delete_reminder" >>

Catalog == {list_tools[i] : i \in 1..Len(list_tools)}

NoRequest == Request("", <<>>, EmptyMap, FALSE, EmptyMap)

\* op names the DexClient method the branch calls.
Send(op, req, a) ==
  [kind |-> "request", op |-> op, exc |-> NoExc, req |-> req, args |-> a]
Raise(exc, a) ==
  [kind |-> "raise", op |-> "", exc |-> exc, req |-> NoRequest, args |-> a]
Unknown(a) ==
  [kind |-> "unknown", op |-> "", exc |-> NoExc, req |-> NoRequest, args |-> a]

\* arguments[k] for each k of ks in turn: the first missing key raises KeyError.
Subscript(a, ks, then) ==
  LET missing == {i \in 1..Len(ks) : ks[i] \notin DOMAIN a}
  IN IF missing = {} THEN then
     ELSE Raise(KeyError(ks[CHOOSE i \in missing : \A j \in missing : i <= j]), a)

\* The body of call_tool's try block up to the client's call of _request.
Dispatch(name, a, now) ==
  CASE name = "dex_list_contacts" ->
         Send("list_contacts", list_contacts(Get(a, "limit", Num("10")), Get(a, "offset", Num("0"))), a)
    [] name = "dex_get_contact" ->
         Subscript(a, <<"contact_id">>, Send("get_contact", get_contact(a["contact_id"]), a))
    [] name = "dex_search_contacts" ->
         Subscript(a, <<"email">>, Send("search_contacts_by_email", search_contacts_by_email(a["email"]), a))
    [] name = "dex_create_contact" ->
         Subscript(a, <<"first_name", "last_name">>,
           Send("create_contact", create_contact(
             [k \in ContactBaseKeys \cup {"email", "phone", "phone_label"} |->
                CASE k \in {"first_name", "last_name"} -> a[k]
                  [] k = "phone_label" -> Get(a, k, Str("Work"))
                  [] OTHER -> Get(a, k, Null)]), a))
    [] name = "dex_update_contact" ->
         Subscript(a, <<"contact_id">>,
           Send("update_contact", update_contact(a["contact_id"], Pop(a, "contact_id")),
                Pop(a, "contact_id")))
    [] name = "dex_delete_contact" ->
         Subscript(a, <<"contact_id">>, Send("delete_contact", delete_contact(a["contact_id"]), a))
    [] name = "dex_list_notes" ->
         Send("list_notes", list_notes(Get(a, "limit", Num("10")), Get(a, "offset", Num("0"))), a)
    [] name = "dex_get_notes_for_contact" ->
         Subscript(a, <<"contact_id">>, Send("get_notes_for_contact", get_notes_for_contact(a["contact_id"]), a))
    [] name = "dex_create_note" ->
         Subscript(a, <<"note", "contact_ids">>,
           IF a["contact_ids"].kind # "list"
             THEN Raise(TypeError("'NoneType' object is not iterable"), a)
             ELSE Send("create_note", create_note(a["note"], a["contact_ids"],
                                   Get(a, "event_time", Null), now), a))
    [] name = "dex_update_note" ->
         Subscript(a, <<"note_id", "note">>,
           Send("update_note", update_note(a["note_id"], a["note"]), a))
    [] name = "dex_delete_note" ->
         Subscript(a, <<"note_id">>, Send("delete_note", delete_note(a["note_id"]), a))
    [] name = "dex_list_reminders" ->
         Send("list_reminders", list_reminders(Get(a, "limit", Num("10")), Get(a, "offset", Num("0"))), a)
    [] name = "dex_create_reminder" ->
         Subscript(a, <<"title", "due_date">>,
           Send("create_reminder", create_reminder(a["title"], a["due_date"],
                                Get(a, "contact_ids", Null), Get(a, "text", Null),
                                Bool(FALSE)), a))
    [] name = "dex_update_reminder" ->
         Subscript(a, <<"reminder_id">>,
           Send("update_reminder", update_reminder(a["reminder_id"], Get(a, "title", Null),
                                Get(a, "text", Null), Get(a, "due_date", Null),
                                Get(a, "is_complete", Null)), a))
    [] name = "dex_complete_reminder" ->
         Subscript(a, <<"reminder_id">>, Send("complete_reminder", complete_reminder(a["reminder_id"]), a))
    [] name = "dex_delete_reminder" ->
         Subscript(a, <<"reminder_id">>, Send("delete_reminder", delete_reminder(a["reminder_id"]), a))
    [] OTHER -> Unknown(a)

\* [TextContent(type="text", text=...)]
TextContent(text) == <<[type |-> "text", text |-> text]>>

\* json.dumps(result, indent=2)
JsonDumps(result) == <<"{", result, "}">>

\* One run of the handler on mapping a with singleton cl, environment e, the
\* remote behaving as remote and the clock reading now: what comes back and
\* what is left behind.
call_tool(name, a, cl, e, remote, now) ==
  LET g == get_client(cl, e) IN
  IF g.raised
    THEN [client |-> g.client, built |-> g.built, args |-> a, op |-> "",
          outcome |-> "raised", exc |-> g.exc,
          content |-> <<>>, requests |-> <<>>, failed |-> FALSE]
    ELSE
      LET d == Dispatch(name, a, now)
          r == _request(d.req, remote)
      IN CASE d.kind = "unknown" ->
                [client |-> g.client, built |-> g.built, args |-> d.args,
                 op |-> d.op, outcome |-> "returned",
                 exc |-> NoExc, content |-> TextContent(<<"Unknown tool: ", name>>),
                 requests |-> <<>>, failed |-> FALSE]
           [] d.kind = "raise" ->
                [client |-> g.client, built |-> g.built, args |-> d.args,
                 op |-> d.op, outcome |-> "returned",
                 exc |-> d.exc, content |-> TextContent(<<"Error: ">> \o d.exc.text),
                 requests |-> <<>>, failed |-> FALSE]
           [] d.kind = "request" /\ r.ok ->
                [client |-> g.client, built |-> g.built, args |-> d.args,
                 op |-> d.op, outcome |-> "returned",
                 exc |-> NoExc, content |-> TextContent(JsonDumps(r.result)),
                 requests |-> <<d.req>>, failed |-> FALSE]
           [] d.kind = "request" /\ ~r.ok ->
                [client |-> g.client, built |-> g.built, args |-> d.args,
                 op |-> d.op, outcome |-> "returned",
                 exc |-> r.exc, content |-> TextContent(<<"Error: ">> \o r.exc.text),
                 requests |-> <<d.req>>, failed |-> TRUE]

(***************************************************************************)
(* The callers' inputs: tool names and arguments mappings.                 *)
(***************************************************************************)
\* The "required" list of each tool's inputSchema.
Required(name) ==
  CASE name \in {"dex_get_contact", "dex_update_contact", "dex_delete_contact",
                 "dex_get_notes_for_contact"} -> {"contact_id"}
    [] name = "dex_search_contacts" -> {"email"}
    [] name = "dex_create_contact" -> {"first_name", "last_name"}
    [] name = "dex_create_note" -> {"note", "contact_ids"}
    [] name = "dex_update_note" -> {"note_id", "note"}
    [] name = "dex_delete_note" -> {"note_id"}
    [] name = "dex_create_reminder" -> {"title", "due_date"}
    [] name \in {"dex_update_reminder", "dex_complete_reminder",
                 "dex_delete_reminder"} -> {"reminder_id"}
    [] OTHER -> {}

\* Clock readings a call can happen at.
Times == {"2024-06-01T12:00:00+00:00", "2024-06-01T12:00:07+00:00"}

\* create_note is the one method that reads the clock: a call of any other
\* tool is the same at every reading and is taken at one of them.
ReadingsFor(name) ==
  IF name = "dex_create_note" THEN Times ELSE {"2024-06-01T12:00:00+00:00"}

\* A name outside the catalog.
UnknownNames == {"dex_bogus"}

ToolNames == Catalog \cup UnknownNames

\* Marks a key the caller leaves out of the mapping.
Absent == [kind |-> "absent", items |-> <<>>]

Strip(rec) == [k \in {x \in DOMAIN rec : rec[x] # Absent} |-> rec[k]]

Ids == {List(<<>>), List(<<"c1">>), List(<<"c1", "c2">>), List(<<"c2", "c1">>)}

PageArgs == {Strip(r) : r \in [limit : {Absent, Num("5")}, offset : {Absent, Num("0"), Num("20")}]}

ContactIdArgs == {Strip(r) : r \in [contact_id : {Absent, Str("c1")}, limit : {Absent, Num("5")}]}

SearchArgs == {Strip(r) : r \in [email : {Absent, Str(""), Str("ada@example.com")}]}

CreateContactArgs == {Strip(r) : r \in
  [first_name : {Absent, Str("Ada")}, last_name : {Absent, Str("Lovelace")},
   email : {Absent, Null, Str(""), Str("ada@example.com")},
   phone : {Absent, Str(""), Str("555")}, phone_label : {Absent, Str("Mobile")},
   job_title : {Absent, Str(""), Str("Engineer")}]}

UpdateContactArgs == {Strip(r) : r \in
  [contact_id : {Absent, Str("c1")}, first_name : {Absent, Str(""), Str("Ada")},
   job_title : {Absent, Null, Str("Engineer")},
   contact_emails : {Absent, List(<<"ada@example.com">>)},
   nickname : {Absent, Str("ace")}]}

CreateNoteArgs == {Strip(r) : r \in
  [note : {Absent, Str(""), Str("met")}, contact_ids : {Absent, Null} \cup Ids,
   event_time : {Absent, Null, Str(""), Str("2024-06-01T00:00:00Z")}]}

UpdateNoteArgs == {Strip(r) : r \in
  [note_id : {Absent, Str("n1")}, note : {Absent, Str(""), Str("met")},
   contact_ids : {Absent, List(<<"c1">>)}]}

NoteIdArgs == {Strip(r) : r \in [note_id : {Absent, Str("n1")}]}

CreateReminderArgs == {Strip(r) : r \in
  [title : {Absent, Str("Follow up")}, due_date : {Absent, Str("2024-06-01")},
   contact_ids : {Absent, Null} \cup Ids, text : {Absent, Null, Str(""), Str("call")},
   is_complete : {Absent, Bool(TRUE)}]}

UpdateReminderArgs == {Strip(r) : r \in
  [reminder_id : {Absent, Str("r1")},
   title : {Absent, Null, Str(""), Str("Follow up")},
   text : {Absent, Str(""), Str("call")}, due_date : {Absent, Str("2024-06-01")},
   is_complete : {Absent, Null, Bool(FALSE), Bool(TRUE)},
   contact_ids : {Absent, List(<<"c1">>)}]}

ReminderIdArgs == {Strip(r) : r \in
  [reminder_id : {Absent, Str("r1")}, title : {Absent, Str("Follow up")}]}

\* The mappings a caller passes with a tool name.
ArgsOf(name) ==
  CASE name \in {"dex_list_contacts", "dex_list_notes", "dex_list_reminders"} -> PageArgs
    [] name \in {"dex_get_contact", "dex_delete_contact", "dex_get_notes_for_contact"} ->
         ContactIdArgs
    [] name = "dex_search_contacts" -> SearchArgs
    [] name = "dex_create_contact" -> CreateContactArgs
    [] name = "dex_update_contact" -> UpdateContactArgs
    [] name = "dex_create_note" -> CreateNoteArgs
    [] name = "dex_update_note" -> UpdateNoteArgs
    [] name = "dex_delete_note" -> NoteIdArgs
    [] name = "dex_create_reminder" -> CreateReminderArgs
    [] name = "dex_update_reminder" -> UpdateReminderArgs
    [] name \in {"dex_complete_reminder", "dex_delete_reminder"} -> ReminderIdArgs
    [] OTHER -> ContactIdArgs

(***************************************************************************)
(* State machine.                                                          *)
(***************************************************************************)
NoCall == [kind |-> "none", name |-> "", given |-> EmptyMap, outcome |-> "",
           exc |-> NoExc, content |-> <<>>, requests |-> <<>>, failed |-> FALSE,
           reused |-> FALSE, shOutcome |-> "", shContent |-> <<>>,
           op |-> "", now |-> ""]

NoPrev == [set |-> FALSE, name |-> "", requests |-> <<>>]

Init ==
  /\ started = FALSE
  /\ env \in EnvStates
  /\ _client = NoClient
  /\ args = EmptyMap
  /\ last = NoCall
  /\ prev = NoPrev
  /\ listed = <<>>
  /\ shadow = [client |-> NoClient, args |-> EmptyMap]
  /\ reuses = 0
  /\ built = 0
  /\ keyCalled = FALSE
  /\ noKeyCalled = FALSE

\* main / run_server: the server starts serving requests.
RunServer ==
  /\ ~started
  /\ started' = TRUE
  /\ UNCHANGED <<env, _client, args, last, prev, listed, shadow, reuses,
                 built, keyCalled, noKeyCalled>>

\* A list-tools request.
ListTools ==
  /\ started
  /\ listed' = list_tools
  /\ UNCHANGED <<started, env, _client, args, last, prev, shadow, reuses,
                 built, keyCalled, noKeyCalled>>

\* The handler runs on mapping a; sh is the dispatcher and the mapping as they
\* would be had no earlier call's client operation failed. built counts the
\* DexClient objects constructed so far; keyCalled and noKeyCalled record that
\* a call was made while the API key was configured, and while it was not; last.now is the clock reading of a
\* call of create_note, the one method that reads the clock.
Handle(name, a, sh, remote, now, again) ==
  LET r == call_tool(name, a, _client, env, remote, now)
      s == call_tool(name, sh.args, sh.client, env, remote, now)
  IN /\ _client' = r.client
     /\ args' = r.args
     /\ last' = [kind |-> "call", name |-> name, given |-> a, outcome |-> r.outcome,
                 exc |-> r.exc, content |-> r.content, requests |-> r.requests,
                 failed |-> r.failed, reused |-> again,
                 shOutcome |-> s.outcome, shContent |-> s.content,
                 op |-> r.op, now |-> IF r.op = "create_note" THEN now ELSE ""]
     /\ shadow' = IF r.failed THEN sh ELSE [client |-> s.client, args |-> s.args]
     /\ built' = built + (IF r.built THEN 1 ELSE 0)
     /\ keyCalled' = (keyCalled \/ (env.set /\ env.val # ""))
     /\ noKeyCalled' = (noKeyCalled \/ ~(env.set /\ env.val # ""))

\* A call-tool request with a mapping the caller has just built.
CallTool(name, m, remote, now) ==
  /\ started
  /\ last.kind = "none"
  /\ Handle(name, m, [shadow EXCEPT !.args = m], remote, now, FALSE)
  /\ prev' = NoPrev
  /\ reuses' = 0
  /\ UNCHANGED <<started, env, listed>>

\* The caller invokes the same tool again and passes the same mapping object.
CallToolAgain(remote, now) ==
  /\ started
  /\ last.kind = "call"
  /\ reuses < MaxReuse
  /\ Handle(last.name, args, shadow, remote, now, TRUE)
  /\ prev' = [set |-> TRUE, name |-> last.name, requests |-> last.requests]
  /\ reuses' = reuses + 1
  /\ UNCHANGED <<started, env, listed>>

\* The caller takes the result and drops its mapping.
TakeResult ==
  /\ last.kind = "call"
  /\ last' = NoCall
  /\ args' = EmptyMap
  /\ prev' = NoPrev
  /\ reuses' = 0
  /\ shadow' = [shadow EXCEPT !.args = EmptyMap]
  /\ UNCHANGED <<started, env, _client, listed, built, keyCalled, noKeyCalled>>

Next ==
  \/ RunServer
  \/ ListTools
  \/ \E name \in ToolNames : \E m \in ArgsOf(name) : \E remote \in Remotes :
       \E now \in ReadingsFor(name) : CallTool(name, m, remote, now)
  \/ \E remote \in Remotes : \E now \in ReadingsFor(last.name) :
       CallToolAgain(remote, now)
  \/ TakeResult

Spec == Init /\ [][Next]_vars

\* Code of the same process (a host, a test) writes os.environ["DEX_API_KEY"]
\* between two calls.
SetEnv(e) ==
  /\ last.kind = "none"
  /\ e # env
  /\ env' = e
  /\ UNCHANGED <<started, _client, args, last, prev, listed, shadow, reuses,
                 built, keyCalled, noKeyCalled>>

NextEnv ==
  \/ Next
  \/ \E e \in EnvStates : SetEnv(e)

\* The server in a process whose environment changes while it runs.
SpecEnv == Init /\ [][NextEnv]_vars

(***************************************************************************)
(* Properties.                                                             *)
(***************************************************************************)
Called(name) == last.kind = "call" /\ last.name = name

\* The last call sent a request to the remote API.
Sent(name) == Called(name) /\ last.requests # <<>>

SentBody(top) == last.requests[1].json[top]

KeyConfigured == env.set /\ env.val # ""

\* The caller supplied key k with a non-null value.
Supplied(k) == k \in DOMAIN last.given /\ last.given[k] # Null

\* C1: every tool call, whatever the name, the arguments, the API key and the
\* remote's behaviour, returns exactly one text content and raises nothing.
C1_OneTextResultNeverRaises ==
  last.kind = "call" =>
    /\ last.outcome = "returned"
    /\ Len(last.content) = 1
    /\ last.content[1].type = "text"

\* C2: a call whose client operation fails returns "Error: " followed by the
\* underlying message, and every call returns what it would have returned had
\* the failed calls before it never happened.
C2_FailedCallsLeaveNoTrace ==
  last.kind = "call" =>
    /\ last.failed =>
         /\ last.outcome = "returned"
         /\ Len(last.content) = 1
         /\ last.content[1].text = <<"Error: ">> \o last.exc.text
    /\ last.outcome = last.shOutcome
    /\ last.content = last.shContent

\* C3: a tool name outside the catalog is answered with the text
\* "Unknown tool: <name>" and raises nothing, whatever the singleton and the
\* API key.
C3_UnknownToolIsText ==
  (last.kind = "call" /\ last.name \notin Catalog) =>
    /\ last.outcome = "returned"
    /\ Len(last.content) = 1
    /\ last.content[1].text = <<"Unknown tool: ", last.name>>

\* C4: with the API key absent the configuration error happens at startup:
\* no list-tools and no call-tool request is ever accepted.
C4_MissingKeyStopsStartup ==
  ~KeyConfigured => (listed = <<>> /\ last.kind = "none")

C5_BodyKey(k) == IF k = "due_date" THEN "due_at_date" ELSE k

C5_Fields == {"title", "text", "due_date", "is_complete"}

\* C5: update_reminder sends PUT /reminders/{id} whose "reminder" object has
\* exactly the keys of the non-null arguments among title, text, due_date
\* (as due_at_date) and is_complete, each with the value given, falsy or not.
C5_UpdateReminderSendsNonNull ==
  Sent("dex_update_reminder") =>
    LET req == last.requests[1]
        given == {k \in C5_Fields : Supplied(k)}
    IN /\ req.method = "PUT"
       /\ req.path = <<"/reminders/">> \o Fmt(last.given["reminder_id"])
       /\ req.hasJson /\ DOMAIN req.json = {"reminder"}
       /\ DOMAIN req.json.reminder = {C5_BodyKey(k) : k \in given}
       /\ \A k \in given : req.json.reminder[C5_BodyKey(k)] = last.given[k]

\* An explicit empty title and is_complete=false were sent, text was left out.
C5_Witness ==
  /\ Sent("dex_update_reminder")
  /\ "text" \notin DOMAIN last.given
  /\ "title" \in DOMAIN last.given /\ last.given["title"] = Str("")
  /\ "is_complete" \in DOMAIN last.given /\ last.given["is_complete"] = Bool(FALSE)
  /\ "due_date" \notin DOMAIN last.given

\* C6: dex_update_contact sends PUT /contacts/{id} whose "contact" object has
\* exactly the supplied keys other than contact_id, with the supplied values.
C6_UpdateContactSendsSupplied ==
  Sent("dex_update_contact") =>
    LET req == last.requests[1]
    IN /\ req.method = "PUT"
       /\ req.path = <<"/contacts/">> \o Fmt(last.given["contact_id"])
       /\ req.hasJson /\ DOMAIN req.json = {"contact"}
       /\ DOMAIN req.json.contact = (DOMAIN last.given) \ {"contact_id"}
       /\ \A k \in DOMAIN req.json.contact : req.json.contact[k] = last.given[k]

\* A partial update: only first_name was supplied with the id.
C6_Witness ==
  /\ Sent("dex_update_contact")
  /\ DOMAIN last.given = {"contact_id", "first_name"}
  /\ DOMAIN SentBody("contact") = {"first_name"}

\* The optional fields of each create tool and the body key each one sets.
C7_Optional(name) ==
  CASE name = "dex_create_contact" ->
         {"email", "phone", "job_title", "description", "linkedin", "twitter",
          "instagram", "website"}
    [] name = "dex_create_note" -> {"event_time"}
    [] name = "dex_create_reminder" -> {"contact_ids", "text"}

C7_BodyKey(name, k) ==
  CASE k = "email" -> "contact_emails"
    [] k = "phone" -> "contact_phone_numbers"
    [] k = "contact_ids" /\ name = "dex_create_reminder" -> "reminders_contacts"
    [] OTHER -> k

C7_Top(name) ==
  CASE name = "dex_create_contact" -> "contact"
    [] name = "dex_create_note" -> "timeline_event"
    [] name = "dex_create_reminder" -> "reminder"

\* C7: a create operation's body holds the key of an optional field exactly
\* when the caller provided the field, also with a falsy value.
C7_CreateBodyHasExactlyProvided ==
  \A name \in {"dex_create_contact", "dex_create_note", "dex_create_reminder"} :
    Sent(name) =>
      \A k \in C7_Optional(name) :
        Supplied(k) <=> C7_BodyKey(name, k) \in DOMAIN SentBody(C7_Top(name))

\* C8: an update tool invoked again with the same arguments mapping sends the
\* same request body as the first time.
C8_SameMappingSameBody ==
  (/\ last.kind = "call" /\ last.reused /\ prev.set
   /\ last.name \in {"dex_update_contact", "dex_update_reminder"}
   /\ prev.requests # <<>>) =>
     /\ last.requests # <<>>
     /\ last.requests[1].json = prev.requests[1].json

C9_Scalars(name) ==
  CASE name = "dex_update_contact" -> ContactBaseKeys
    [] name = "dex_update_note" -> {"note"}
    [] OTHER -> {"title", "text", "due_at_date", "is_complete"}

C9_Top(name) ==
  CASE name = "dex_update_contact" -> "contact"
    [] name = "dex_update_note" -> "timeline_event"
    [] OTHER -> "reminder"

\* C9: no update tool sends a body with a key outside the resource's scalar
\* fields or with a list as a value.
C9_UpdatesSendScalarsOnly ==
  \A name \in {"dex_update_contact", "dex_update_note", "dex_update_reminder",
               "dex_complete_reminder"} :
    Sent(name) =>
      LET body == SentBody(C9_Top(name))
      IN /\ DOMAIN body \subseteq C9_Scalars(name)
         /\ \A k \in DOMAIN body : body[k].kind # "list"

\* data is one {contact_id} entry per id of ids, in the order of ids.
C10_Nests(data, ids) ==
  /\ Len(data) = Len(ids.items)
  /\ \A i \in 1..Len(ids.items) :
       DOMAIN data[i] = {"contact_id"} /\ data[i].contact_id = ids.items[i]

\* C10: create_reminder sends no reminders_contacts key for an absent, null or
\* empty contact list; create_note always sends timeline_items_contacts, with
\* an empty data list for an empty contact list; a non-empty list is nested as
\* one {contact_id} entry per id, in order, by both.
C10_EmptyContactList ==
  /\ Sent("dex_create_reminder") =>
       LET ids == Get(last.given, "contact_ids", Null)
           body == SentBody("reminder")
       IN IF ids = Null \/ ids = List(<<>>)
            THEN "reminders_contacts" \notin DOMAIN body
            ELSE /\ "reminders_contacts" \in DOMAIN body
                 /\ DOMAIN body["reminders_contacts"] = {"data"}
                 /\ C10_Nests(body["reminders_contacts"].data, ids)
  /\ Sent("dex_create_note") =>
       LET ids == last.given["contact_ids"]
           body == SentBody("timeline_event")
       IN /\ "timeline_items_contacts" \in DOMAIN body
          /\ DOMAIN body["timeline_items_contacts"] = {"data"}
          /\ C10_Nests(body["timeline_items_contacts"].data, ids)
          /\ ids = List(<<>>) => body["timeline_items_contacts"].data = <<>>

\* A note was created with an empty contact list, which was still nested.
C10_Witness ==
  /\ Sent("dex_create_note")
  /\ last.given["contact_ids"] = List(<<>>)
  /\ SentBody("timeline_event")["timeline_items_contacts"].data = <<>>

\* The remote's behaviour at the last call, read off what the call met.
C11_Remote ==
  CASE last.exc.type = "HTTPStatusError" -> "status"
    [] last.exc.type = "TimeoutException" -> "timeout"
    [] OTHER -> "ok"

\* update_reminder(id, is_complete=true) through its tool, for the id (if any)
\* the last call was given, against the same singleton, remote and clock.
C11_AsUpdate ==
  call_tool("dex_update_reminder",
            [k \in ((DOMAIN last.given) \cap {"reminder_id"}) \cup {"is_complete"} |->
               IF k = "is_complete" THEN Bool(TRUE) ELSE last.given[k]],
            _client, env, C11_Remote, last.now)

\* C11: complete_reminder(id) sends PUT /reminders/{id} with the body
\* {"reminder": {"is_complete": true}} and nothing else, the request that
\* update_reminder(id, is_complete=true) sends, and returns or fails as it does.
C11_CompleteIsUpdate ==
  Called("dex_complete_reminder") =>
    /\ last.requests = C11_AsUpdate.requests
    /\ last.outcome = C11_AsUpdate.outcome
    /\ last.content = C11_AsUpdate.content
    /\ last.exc = C11_AsUpdate.exc
    /\ last.requests # <<>> =>
         LET req == last.requests[1]
         IN /\ Len(last.requests) = 1
            /\ req.method = "PUT"
            /\ req.path = <<"/reminders/">> \o Fmt(last.given["reminder_id"])
            /\ req.params = EmptyMap
            /\ req.hasJson /\ DOMAIN req.json = {"reminder"}
            /\ DOMAIN req.json.reminder = {"is_complete"}
            /\ req.json.reminder["is_complete"] = Bool(TRUE)

\* complete_reminder sent its request, with another key in the mapping, and
\* the request timed out.
C11_Witness ==
  /\ Sent("dex_complete_reminder")
  /\ "title" \in DOMAIN last.given
  /\ last.failed /\ last.exc.type = "TimeoutException"

\* The client operation each tool name stands for.
C12_Route ==
  [n \in {"dex_list_contacts", "dex_get_contact", "dex_search_contacts",
          "dex_create_contact", "dex_update_contact", "dex_delete_contact",
          "dex_list_notes", "dex_get_notes_for_contact", "dex_create_note",
          "dex_update_note", "dex_delete_note", "dex_list_reminders",
          "dex_create_reminder", "dex_update_reminder", "dex_complete_reminder",
          "dex_delete_reminder"} |->
     CASE n = "dex_list_contacts" -> "list_contacts"
       [] n = "dex_get_contact" -> "get_contact"
       [] n = "dex_search_contacts" -> "search_contacts_by_email"
       [] n = "dex_create_contact" -> "create_contact"
       [] n = "dex_update_contact" -> "update_contact"
       [] n = "dex_delete_contact" -> "delete_contact"
       [] n = "dex_list_notes" -> "list_notes"
       [] n = "dex_get_notes_for_contact" -> "get_notes_for_contact"
       [] n = "dex_create_note" -> "create_note"
       [] n = "dex_update_note" -> "update_note"
       [] n = "dex_delete_note" -> "delete_note"
       [] n = "dex_list_reminders" -> "list_reminders"
       [] n = "dex_create_reminder" -> "create_reminder"
       [] n = "dex_update_reminder" -> "update_reminder"
       [] n = "dex_complete_reminder" -> "complete_reminder"
       [] n = "dex_delete_reminder" -> "delete_reminder"]

\* A mapping that holds every required argument of every tool.
C12_FullArgs ==
  [k \in {"contact_id", "email", "first_name", "last_name", "note", "contact_ids",
          "note_id", "title", "due_date", "reminder_id"} |->
     IF k = "contact_ids" THEN List(<<"c1">>) ELSE Str("x")]

\* C12: the catalog list_tools returns has 16 entries with pairwise distinct
\* names, one per client operation; the names call_tool routes to a client
\* operation are exactly the catalog's, each to an operation of its own.
C12_CatalogMatchesRouting ==
  /\ listed # <<>> =>
       LET names == {listed[i] : i \in 1..Len(listed)}
       IN /\ Len(listed) = 16
          /\ Cardinality(names) = 16
          /\ names = DOMAIN C12_Route
          /\ {C12_Route[n] : n \in names} = ClientOps
          /\ \A n \in names \cup ToolNames : \A t \in Times :
               LET d == Dispatch(n, C12_FullArgs, t)
               IN IF n \in names
                    THEN d.kind = "request" /\ d.op = C12_Route[n]
                    ELSE d.kind = "unknown" /\ d.op = ""
  /\ (last.kind = "call" /\ last.op # "") =>
       last.name \in DOMAIN C12_Route /\ last.op = C12_Route[last.name]
  /\ (last.kind = "call" /\ last.name \notin DOMAIN C12_Route) =>
       last.requests = <<>>

\* The catalog was listed and dex_search_contacts was routed to
\* search_contacts_by_email.
C12_Witness ==
  /\ listed # <<>>
  /\ Sent("dex_search_contacts")
  /\ last.op = "search_contacts_by_email"

\* C13: no call causes more than one HTTP request, also when the request
\* fails, and a call of a catalog tool with every required argument present
\* causes exactly one.
C13_OneRequestPerCall ==
  last.kind = "call" =>
    /\ Len(last.requests) <= 1
    /\ (last.name \in Catalog /\ \A k \in Required(last.name) : Supplied(k)) =>
         Len(last.requests) = 1

\* C14: create_note sends an explicit event_time unchanged, sends the UTC
\* clock reading of the call when event_time is left out or null, and always
\* sends meeting_type "note".
C14_EventTime ==
  Sent("dex_create_note") =>
    LET body == SentBody("timeline_event")
    IN /\ last.now \in Times
       /\ body["event_time"] = IF Supplied("event_time")
                                 THEN last.given["event_time"]
                                 ELSE Str(last.now)
       /\ body["meeting_type"] = Str("note")

\* A note was created with event_time null and carries the clock reading of
\* its call, the later of the two.
C14_Witness ==
  /\ Sent("dex_create_note")
  /\ "event_time" \in DOMAIN last.given /\ last.given["event_time"] = Null
  /\ last.now = "2024-06-01T12:00:07+00:00"
  /\ SentBody("timeline_event")["event_time"] = Str("2024-06-01T12:00:07+00:00")

\* C16: a call with a name outside the catalog, or of a catalog tool with a
\* required argument missing, sends no HTTP request and returns its text:
\* "Unknown tool: <name>", or "Error: " and the message.
C16_UnroutableSendsNothing ==
  (/\ last.kind = "call"
   /\ \/ last.name \notin Catalog
      \/ \E k \in Required(last.name) : k \notin DOMAIN last.given) =>
    /\ last.requests = <<>>
    /\ last.outcome = "returned"
    /\ Len(last.content) = 1
    /\ IF last.name \notin Catalog
         THEN last.content[1].text = <<"Unknown tool: ", last.name>>
         ELSE Head(last.content[1].text) = "Error: "

C15_State ==
  /\ built <= 1
  /\ (_client # NoClient) <=> (built = 1)
  /\ (_client # NoClient) <=> keyCalled
  /\ (last.kind = "call" /\ ~keyCalled) => last.outcome = "raised"

C15_Step ==
  /\ built' # built =>
       /\ last'.kind = "call"
       /\ _client = NoClient
       /\ _client' = DexClient(env.val)
  /\ _client # NoClient => _client' = _client

\* C15: at most one DexClient is ever constructed; it is constructed in the
\* first call made while the API key is configured and by nothing else; once
\* set the singleton is never replaced; a call made without the key leaves it
\* unset, and the next call made with the key constructs it.
C15_LazySingleton == [](C15_State) /\ [][C15_Step]_vars

\* A call without the key left the singleton unset, and a later call, made
\* with the key, constructed the one client.
C15_Witness ==
  /\ noKeyCalled /\ keyCalled
  /\ last.kind = "call" /\ last.outcome = "returned"
  /\ _client # NoClient /\ built = 1

====
